---- MODULE Spec2Model ----
(***************************************************************************)
(* Model of qiita_db/parameters.py (BaseParameters and its three           *)
(* subclasses) over a relational store, and of the derived UI flags of     *)
(* qiita_pet/uimodules/raw_data_tab.py (RawDataEditorTab.render).          *)
(***************************************************************************)
EXTENDS Integers, Sequences, FiniteSets, TLC

VARIABLES tables, seqs, seeded, created, last, procs, ui

vars == <<tables, seqs, seeded, created, last, procs, ui>>

(***************************************************************************)
(* Bounds of the model.                                                    *)
(***************************************************************************)
\* rows that create calls may add in one run (caps the serial counters)
MaxRows == 2

(***************************************************************************)
(* The parameter classes (parameters.py:126-147).                          *)
(***************************************************************************)
Classes == {"PreprocessedIlluminaParams", "Preprocessed454Params",
            "ProcessedSortmernaParams"}

column_id(cls) ==
    IF cls = "ProcessedSortmernaParams" THEN "processed_params_id"
    ELSE "preprocessed_params_id"

table(cls) ==
    CASE cls = "PreprocessedIlluminaParams" -> "preprocessed_sequence_illumina_params"
      [] cls = "Preprocessed454Params" -> "preprocessed_sequence_454_params"
      [] cls = "ProcessedSortmernaParams" -> "processed_params_sortmerna"

ignore_cols(cls) ==
    IF cls = "ProcessedSortmernaParams" THEN {"reference_id"}
    ELSE {"param_set_name"}

Tables == {table(cls) : cls \in Classes}

(***************************************************************************)
(* The relational schema: for each table its columns with their types, in  *)
(* the store's own (ordinal) order.  Every table has its table-specific    *)
(* surrogate key, the human-readable name column and its value columns.    *)
(***************************************************************************)
get_table_cols_w_type(t) ==
    CASE t = "preprocessed_sequence_illumina_params" ->
            << <<"preprocessed_params_id", "bigint">>,
               <<"param_set_name", "varchar">>,
               <<"rev_comp", "boolean">>,
               <<"barcode_type", "varchar">> >>
      [] t = "preprocessed_sequence_454_params" ->
            << <<"preprocessed_params_id", "bigint">>,
               <<"param_set_name", "varchar">>,
               <<"trim_seq_length", "boolean">>,
               <<"min_seq_len", "integer">> >>
      [] t = "processed_params_sortmerna" ->
            << <<"processed_params_id", "bigint">>,
               <<"threads", "integer">>,
               <<"reference_id", "bigint">>,
               <<"param_set_name", "varchar">> >>

Range(s) == {s[i] : i \in DOMAIN s}

get_table_cols(t) == [i \in DOMAIN get_table_cols_w_type(t) |->
                        get_table_cols_w_type(t)[i][1]]

ColType(t, c) == (CHOOSE p \in Range(get_table_cols_w_type(t)) : p[1] = c)[2]

\* the serial primary key of a table
KeyCol(t) == get_table_cols_w_type(t)[1][1]

\* the values a column of a given type takes in the model
TypeValues(t, c) ==
    CASE ColType(t, c) = "boolean" -> BOOLEAN
      [] ColType(t, c) = "integer" -> {100, 200}
      [] ColType(t, c) = "bigint" -> {1, 2}
      [] ColType(t, c) = "varchar" ->
            IF c = "param_set_name" THEN {"Defaults", "Custom"}
            ELSE {"golay_12", "hamming_8"}

Names == {"Defaults", "Custom"}

\* a column name no table has
BogusCol == "bogus_col"

(***************************************************************************)
(* Python string ordering and formatting, as far as the program uses them. *)
(***************************************************************************)
\* every string the program compares, in ascending (code point) order
Alphabetical ==
    << "barcode_type", "bigint", "bogus_col", "boolean", "integer",
       "min_seq_len", "param_set_name", "preprocessed_params_id",
       "processed_params_id", "reference_id", "rev_comp",
       "threads", "trim_seq_length", "varchar" >>

Rank(s) == CHOOSE i \in DOMAIN Alphabetical : Alphabetical[i] = s

StrLess(a, b) == Rank(a) < Rank(b)

\* comparison of two [name, type] lists: lexicographic
PairLess(p, q) == StrLess(p[1], q[1]) \/ (p[1] = q[1] /\ StrLess(p[2], q[2]))

\* "%s" % value
PyStr(type, v) ==
    CASE type = "boolean" -> (IF v THEN "True" ELSE "False")
      [] type \in {"integer", "bigint"} -> ToString(v)
      [] OTHER -> v

RECURSIVE Join(_, _)
Join(sep, s) ==
    IF s = << >> THEN ""
    ELSE IF Len(s) = 1 THEN s[1]
    ELSE s[1] \o sep \o Join(sep, Tail(s))

\* insertion of the tuple x into an ascending sequence of tuples
RECURSIVE InsertSorted(_, _)
InsertSorted(x, s) ==
    IF s = << >> THEN <<x>>
    ELSE IF PairLess(x, s[1]) THEN <<x>> \o s
    ELSE <<s[1]>> \o InsertSorted(x, Tail(s))

\* the list left in the order it came in
unsorted(s) == s

\* sorted(list of tuples): [name, type] lists, or (key, value) items
RECURSIVE sorted(_)
sorted(s) ==
    IF s = << >> THEN << >>
    ELSE InsertSorted(s[1], sorted(Tail(s)))

\* dict.items(): the (key, value) pairs of a dict, in the dict's own order
RECURSIVE items(_)
items(d) ==
    IF DOMAIN d = {} THEN << >>
    ELSE LET k == CHOOSE x \in DOMAIN d : TRUE
         IN  << <<k, d[k]>> >> \o items([c \in DOMAIN d \ {k} |-> d[c]])

(***************************************************************************)
(* Outcomes of a call: a returned value or a raised exception.             *)
(***************************************************************************)
Return(v) == [exc |-> "none", msg |-> "", cols |-> {}, val |-> v]

Raise(e, m, cs) == [exc |-> e, msg |-> m, cols |-> cs, val |-> 0]

Ok == Return(0)

(***************************************************************************)
(* The SQL statements the program issues, against a table's rows.          *)
(***************************************************************************)
\* the WHERE clause joined with OR in place of AND
SqlExistsWhereAny(rows, kwargs) ==
    \E r \in rows : \E c \in DOMAIN kwargs : c \in DOMAIN r /\ r[c] = kwargs[c]

\* SELECT EXISTS(SELECT * FROM t WHERE c1 = v1 AND c2 = v2 ...)
SqlExistsWhere(rows, kwargs) ==
    \E r \in rows : \A c \in DOMAIN kwargs : c \in DOMAIN r /\ r[c] = kwargs[c]

\* SELECT EXISTS(SELECT * FROM t WHERE idcol = id)
SqlExistsId(rows, idcol, id) == \E r \in rows : r[idcol] = id

\* SELECT * FROM t WHERE idcol = id
SqlFetchById(rows, idcol, id) == CHOOSE r \in rows : r[idcol] = id

\* the row INSERT INTO t (param_set_name, cols...) VALUES (...) adds: the
\* serial key takes the sequence's next value
NewRow(t, nextid, name, kwargs) ==
    [c \in Range(get_table_cols(t)) |->
        IF c = KeyCol(t) THEN nextid
        ELSE IF c = "param_set_name" THEN name
        ELSE kwargs[c]]

ValueCols(t) == Range(get_table_cols(t)) \ {KeyCol(t), "param_set_name"}

\* the value columns of a row, without its key and name
ValuesOf(t, r) == [c \in ValueCols(t) |-> r[c]]

(***************************************************************************)
(* BaseParameters._check_columns                                           *)
(***************************************************************************)
_check_columns(cls, kwargs) ==
    LET db_cols0 == Range(get_table_cols(table(cls)))
        db_cols  == (db_cols0 \ {"param_set_name"}) \ {"preprocessed_params_id"}
        missing  == db_cols \ DOMAIN kwargs
        extra    == DOMAIN kwargs \ db_cols
    IN  IF "param_set_name" \notin db_cols0
          THEN Raise("KeyError", "param_set_name", {})
        ELSE IF "preprocessed_params_id" \notin db_cols0
          THEN Raise("KeyError", "preprocessed_params_id", {})
        ELSE IF missing # {}
          THEN Raise("ValueError", "Missing columns", missing)
        ELSE IF extra # {}
          THEN Raise("ValueError", "Extra columns", extra)
        ELSE Ok

(***************************************************************************)
(* BaseParameters.exists: the outcome and the statements issued.           *)
(***************************************************************************)
exists(cls, kwargs, rows) ==
    LET chk == _check_columns(cls, kwargs)
    IN  IF chk.exc # "none" THEN [res |-> chk, stmts |-> << >>]
        ELSE [res |-> Return(SqlExistsWhere(rows, kwargs)),
              stmts |-> <<"SELECT EXISTS">>]

(***************************************************************************)
(* BaseParameters._check_id                                                *)
(***************************************************************************)
_check_id(cls, id, rows) == SqlExistsId(rows, column_id(cls), id)

\* QiitaObject.__init__: an instance is built only for an existing id
Construct(cls, id, rows) ==
    IF _check_id(cls, id, rows) THEN Return(id)
    ELSE Raise("QiitaDBUnknownIDError", cls, {})

\* the INSERT returning the first field of a row count in place of the key
SqlInsertReturningCount(t, rows, nextid, name, kwargs) ==
    IF "preprocessed_params_id" \notin Range(get_table_cols(t))
      THEN [res |-> Raise("ProgrammingError", "preprocessed_params_id", {}),
            rows |-> rows]
    ELSE [res |-> Return(1), rows |-> rows \cup {NewRow(t, nextid, name, kwargs)}]

(***************************************************************************)
(* INSERT INTO t (param_set_name, cols) VALUES (...) RETURNING             *)
(* preprocessed_params_id: the statement fails as a whole on a table       *)
(* without the returned column.                                            *)
(***************************************************************************)
SqlInsertReturning(t, rows, nextid, name, kwargs) ==
    IF "preprocessed_params_id" \notin Range(get_table_cols(t))
      THEN [res |-> Raise("ProgrammingError", "preprocessed_params_id", {}),
            rows |-> rows]
    ELSE LET r == NewRow(t, nextid, name, kwargs)
         IN  [res |-> Return(r["preprocessed_params_id"]),
              rows |-> rows \cup {r}]

\* create without its duplicate check
create_unchecked(cls, name, kwargs, rows, nextid) ==
    LET chk == _check_columns(cls, kwargs)
        ins == SqlInsertReturning(table(cls), rows, nextid, name, kwargs)
    IN  IF chk.exc # "none"
          THEN [res |-> chk, stmts |-> << >>, rows |-> rows]
        ELSE IF ins.res.exc # "none"
          THEN [res |-> ins.res, stmts |-> <<"INSERT">>, rows |-> ins.rows]
        ELSE [res |-> Construct(cls, ins.res.val, ins.rows),
              stmts |-> <<"INSERT", "SELECT EXISTS">>, rows |-> ins.rows]

\* create with its INSERT issued ahead of the duplicate check
create_insert_first(cls, name, kwargs, rows, nextid) ==
    LET chk == _check_columns(cls, kwargs)
        ins == SqlInsertReturning(table(cls), rows, nextid, name, kwargs)
    IN  IF chk.exc # "none"
          THEN [res |-> chk, stmts |-> << >>, rows |-> rows]
        ELSE IF ins.res.exc # "none"
          THEN [res |-> ins.res, stmts |-> <<"INSERT">>, rows |-> ins.rows]
        ELSE IF SqlExistsWhere(rows, kwargs)
          THEN [res |-> Raise("QiitaDBDuplicateError", cls, DOMAIN kwargs),
                stmts |-> <<"INSERT", "SELECT EXISTS">>, rows |-> ins.rows]
        ELSE [res |-> Construct(cls, ins.res.val, ins.rows),
              stmts |-> <<"INSERT", "SELECT EXISTS", "SELECT EXISTS">>,
              rows |-> ins.rows]

(***************************************************************************)
(* BaseParameters.create, run without interruption: outcome, statements    *)
(* issued and the table's rows afterwards.                                 *)
(***************************************************************************)
create(cls, name, kwargs, rows, nextid) ==
    LET chk == _check_columns(cls, kwargs)
        ex  == exists(cls, kwargs, rows)
        ins == SqlInsertReturning(table(cls), rows, nextid, name, kwargs)
    IN  IF chk.exc # "none"
          THEN [res |-> chk, stmts |-> << >>, rows |-> rows]
        ELSE IF ex.res.exc # "none"
          THEN [res |-> ex.res, stmts |-> ex.stmts, rows |-> rows]
        ELSE IF ex.res.val
          THEN [res |-> Raise("QiitaDBDuplicateError", cls, DOMAIN kwargs),
                stmts |-> ex.stmts, rows |-> rows]
        ELSE IF ins.res.exc # "none"
          THEN [res |-> ins.res, stmts |-> ex.stmts \o <<"INSERT">>,
                rows |-> ins.rows]
        ELSE [res |-> Construct(cls, ins.res.val, ins.rows),
              stmts |-> ex.stmts \o <<"INSERT", "SELECT EXISTS">>,
              rows |-> ins.rows]

(***************************************************************************)
(* BaseParameters.to_str                                                   *)
(***************************************************************************)
\* list.remove(x): drops the first element equal to x
RECURSIVE list_remove(_, _)
list_remove(s, x) ==
    IF s = << >> THEN << >>
    ELSE IF s[1] = x THEN Tail(s)
    ELSE <<s[1]>> \o list_remove(Tail(s), x)

\* the loop of to_str over the sorted [name, type] lists
RECURSIVE to_str_loop(_, _, _)
to_str_loop(cls, cols, values) ==
    IF cols = << >> THEN << >>
    ELSE LET p_name == cols[1][1]
             p_type == cols[1][2]
             rest   == to_str_loop(cls, Tail(cols), values)
         IN  IF p_name \in ignore_cols(cls) THEN rest
             ELSE IF p_type = "boolean"
               THEN (IF values[p_name] THEN <<"--" \o p_name>> ELSE << >>) \o rest
             ELSE <<"--" \o p_name \o " " \o PyStr(p_type, values[p_name])>> \o rest

to_str(cls, id, rows) ==
    LET table_cols == get_table_cols_w_type(table(cls))
        idpair     == <<column_id(cls), "bigint">>
        values     == SqlFetchById(rows, column_id(cls), id)
    IN  IF idpair \notin Range(table_cols)
          THEN Raise("ValueError", "list.remove(x): x not in list", {})
        ELSE Return(Join(" ", to_str_loop(cls, sorted(list_remove(table_cols, idpair)),
                                          values)))

(***************************************************************************)
(* ProcessedSortmernaParams.reference and .to_file                         *)
(***************************************************************************)
reference(cls, id, rows) == SqlFetchById(rows, column_id(cls), id)["reference_id"]

\* the loop of to_file over the sorted (key, value) items
RECURSIVE to_file_loop(_, _)
to_file_loop(cls, its) ==
    IF its = << >> THEN << >>
    ELSE LET key   == its[1][1]
             value == its[1][2]
             rest  == to_file_loop(cls, Tail(its))
         IN  IF key \in ignore_cols(cls) THEN rest
             ELSE <<"pick_otus:" \o key \o "\t"
                      \o PyStr(ColType(table(cls), key), value) \o "\n">> \o rest

\* to_file without the removal of the id column
to_file_keep_id(cls, id, rows) ==
    LET values == SqlFetchById(rows, column_id(cls), id)
    IN  <<"pick_otus:otu_picking_method\tsortmerna\n">>
          \o to_file_loop(cls, sorted(items(values)))

\* the strings written to f, in the order of the write calls
to_file(cls, id, rows) ==
    LET row    == SqlFetchById(rows, column_id(cls), id)
        values == [c \in DOMAIN row \ {column_id(cls)} |-> row[c]]
    IN  <<"pick_otus:otu_picking_method\tsortmerna\n">>
          \o to_file_loop(cls, sorted(items(values)))

(***************************************************************************)
(* The inputs the calls are given.                                         *)
(***************************************************************************)
RECURSIVE KwargsOver(_, _)
KwargsOver(t, K) ==
    IF K = {} THEN { << >> }
    ELSE LET c == CHOOSE x \in K : TRUE
         IN  {(c :> v) @@ f : v \in TypeValues(t, c), f \in KwargsOver(t, K \ {c})}

\* a full set of values for the table's value columns
DefaultKwargs(t) == [c \in ValueCols(t) |-> CHOOSE v \in TypeValues(t, c) : TRUE]

Without(f, c) == [x \in DOMAIN f \ {c} |-> f[x]]

\* every exact value set, and value sets with a column missing, a column too
\* many, or both
KwargsFor ==
    [t \in Tables |->
        LET d == DefaultKwargs(t)
        IN  KwargsOver(t, ValueCols(t))
              \cup {Without(d, c) : c \in ValueCols(t)}
              \cup {(BogusCol :> 0) @@ d}
              \cup {(BogusCol :> 0) @@ Without(d, c) : c \in ValueCols(t)}]

Kwargs(t) == KwargsFor[t]

Ids == 1..(MaxRows + 1)

\* the rows a populated store may hold for a table before any create call
SeedRows(t) ==
    IF t = "processed_params_sortmerna"
      THEN {NewRow(t, 1, "Defaults", kw) : kw \in KwargsOver(t, ValueCols(t))}
    ELSE {NewRow(t, 1, "Defaults", DefaultKwargs(t))}

NoCall == [op |-> "none", cls |-> "", name |-> "", kwargs |-> << >>, id |-> 0,
           res |-> Ok, stmts |-> << >>, out |-> << >>]

NoProcs == << >>

NoUi == << >>

\* the store is either freshly created, or populated with one row per table
InitStore ==
    /\ seeded \in BOOLEAN
    /\ tables \in [Tables -> UNION {{{r} : r \in SeedRows(t)} : t \in Tables} \cup {{}}]
    /\ \A t \in Tables : IF seeded THEN tables[t] \in {{r} : r \in SeedRows(t)}
                                   ELSE tables[t] = {}
    /\ seqs = [t \in Tables |-> IF seeded THEN 2 ELSE 1]
    /\ created = {}

Init ==
    /\ InitStore
    /\ last = NoCall
    /\ procs = NoProcs
    /\ ui = NoUi

(***************************************************************************)
(* One action per call, each run to completion (one request at a time):    *)
(* a call leaves its outcome in last, and the caller takes the outcome     *)
(* before the next call starts.                                            *)
(***************************************************************************)
Idle == last.op = "none"

Create ==
    \E cls \in Classes, name \in Names :
      \E kwargs \in Kwargs(table(cls)) :
        LET t == table(cls)
            c == create(cls, name, kwargs, tables[t], seqs[t])
            added == c.rows \ tables[t]
        IN  /\ Idle
            /\ added # {} => Cardinality(created) < MaxRows
            /\ tables' = [tables EXCEPT ![t] = c.rows]
            /\ seqs' = [seqs EXCEPT ![t] = IF added # {} THEN @ + 1 ELSE @]
            /\ created' = IF c.res.exc = "none"
                            THEN created \cup {[cls |-> cls, id |-> c.res.val,
                                                name |-> name, values |-> kwargs]}
                          ELSE created
            /\ last' = [NoCall EXCEPT !.op = "create", !.cls = cls,
                          !.name = name, !.kwargs = kwargs,
                          !.res = c.res, !.stmts = c.stmts]
            /\ UNCHANGED <<seeded, procs, ui>>

Exists ==
    \E cls \in Classes :
      \E kwargs \in Kwargs(table(cls)) :
        LET e == exists(cls, kwargs, tables[table(cls)])
        IN  /\ Idle
            /\ last' = [NoCall EXCEPT !.op = "exists", !.cls = cls,
                          !.kwargs = kwargs, !.res = e.res, !.stmts = e.stmts]
            /\ UNCHANGED <<tables, seqs, seeded, created, procs, ui>>

\* _check_id called with an arbitrary id
CheckId ==
    \E cls \in Classes, id \in Ids :
        /\ Idle
        /\ last' = [NoCall EXCEPT !.op = "_check_id", !.cls = cls, !.id = id,
                      !.res = Return(_check_id(cls, id, tables[table(cls)])),
                      !.stmts = <<"SELECT EXISTS">>]
        /\ UNCHANGED <<tables, seqs, seeded, created, procs, ui>>

\* cls(id).to_str()
ToStr ==
    \E cls \in Classes, id \in Ids :
        LET rows == tables[table(cls)]
            inst == Construct(cls, id, rows)
        IN  /\ Idle
            /\ last' = IF inst.exc # "none"
                         THEN [NoCall EXCEPT !.op = "to_str", !.cls = cls, !.id = id,
                                 !.res = inst, !.stmts = <<"SELECT EXISTS">>]
                       ELSE [NoCall EXCEPT !.op = "to_str", !.cls = cls, !.id = id,
                               !.res = to_str(cls, id, rows),
                               !.stmts = <<"SELECT EXISTS", "SELECT">>]
            /\ UNCHANGED <<tables, seqs, seeded, created, procs, ui>>

\* ProcessedSortmernaParams(id).to_file(f)
ToFile ==
    \E id \in Ids :
        LET cls  == "ProcessedSortmernaParams"
            rows == tables[table(cls)]
            inst == Construct(cls, id, rows)
        IN  /\ Idle
            /\ last' = IF inst.exc # "none"
                         THEN [NoCall EXCEPT !.op = "to_file", !.cls = cls, !.id = id,
                                 !.res = inst, !.stmts = <<"SELECT EXISTS">>]
                       ELSE [NoCall EXCEPT !.op = "to_file", !.cls = cls, !.id = id,
                               !.out = to_file(cls, id, rows),
                               !.stmts = <<"SELECT EXISTS", "SELECT">>]
            /\ UNCHANGED <<tables, seqs, seeded, created, procs, ui>>

\* ProcessedSortmernaParams(id).reference
Reference ==
    \E id \in Ids :
        LET cls  == "ProcessedSortmernaParams"
            rows == tables[table(cls)]
            inst == Construct(cls, id, rows)
        IN  /\ Idle
            /\ last' = IF inst.exc # "none"
                         THEN [NoCall EXCEPT !.op = "reference", !.cls = cls, !.id = id,
                                 !.res = inst, !.stmts = <<"SELECT EXISTS">>]
                       ELSE [NoCall EXCEPT !.op = "reference", !.cls = cls, !.id = id,
                               !.res = Return(reference(cls, id, rows)),
                               !.stmts = <<"SELECT EXISTS", "SELECT">>]
            /\ UNCHANGED <<tables, seqs, seeded, created, procs, ui>>

\* the call returns (or its exception propagates) to the caller
Returned ==
    /\ ~Idle
    /\ last' = NoCall
    /\ UNCHANGED <<tables, seqs, seeded, created, procs, ui>>

Next == Create \/ Exists \/ CheckId \/ ToStr \/ ToFile \/ Reference \/ Returned

Spec == Init /\ [][Next]_vars

(***************************************************************************)
(* Two requests at once: each client runs create statement by statement,   *)
(* every statement on its own connection and committed on its own, so the  *)
(* statements of the two requests interleave.                              *)
(***************************************************************************)
Procs == {1, 2}

NoRequest == [pc |-> "idle", cls |-> "", name |-> "", kwargs |-> << >>,
              id |-> 0, res |-> Ok]

InitConc ==
    /\ InitStore
    /\ last = NoCall
    /\ procs = [p \in Procs |-> NoRequest]
    /\ ui = NoUi

\* create is entered: _check_columns, which touches no table
CallCreate(p) ==
    \E cls \in Classes, name \in Names :
      \E kwargs \in Kwargs(table(cls)) :
        LET chk == _check_columns(cls, kwargs)
        IN  /\ procs[p].pc = "idle"
            /\ procs' = [procs EXCEPT ![p] =
                           [NoRequest EXCEPT !.cls = cls, !.name = name,
                              !.kwargs = kwargs, !.res = chk,
                              !.pc = IF chk.exc # "none" THEN "done" ELSE "exists"]]
            /\ UNCHANGED <<tables, seqs, seeded, created, last, ui>>

\* the SELECT EXISTS of cls.exists, and the raise on a duplicate
ExistsStmt(p) ==
    LET r == procs[p]
        e == exists(r.cls, r.kwargs, tables[table(r.cls)])
    IN  /\ r.pc = "exists"
        /\ procs' = [procs EXCEPT ![p] =
                       IF e.res.exc # "none"
                         THEN [r EXCEPT !.pc = "done", !.res = e.res]
                       ELSE IF e.res.val
                         THEN [r EXCEPT !.pc = "done",
                                 !.res = Raise("QiitaDBDuplicateError", r.cls,
                                               DOMAIN r.kwargs)]
                       ELSE [r EXCEPT !.pc = "insert"]]
        /\ UNCHANGED <<tables, seqs, seeded, created, last, ui>>

\* the INSERT ... RETURNING statement
InsertStmt(p) ==
    LET r   == procs[p]
        t   == table(r.cls)
        ins == SqlInsertReturning(t, tables[t], seqs[t], r.name, r.kwargs)
    IN  /\ r.pc = "insert"
        /\ tables' = [tables EXCEPT ![t] = ins.rows]
        /\ seqs' = [seqs EXCEPT ![t] = IF ins.rows # tables[t] THEN @ + 1 ELSE @]
        /\ procs' = [procs EXCEPT ![p] =
                       IF ins.res.exc # "none"
                         THEN [r EXCEPT !.pc = "done", !.res = ins.res]
                       ELSE [r EXCEPT !.pc = "construct", !.id = ins.res.val]]
        /\ UNCHANGED <<seeded, created, last, ui>>

\* return cls(id_): the handle is built, which checks the id
ConstructStmt(p) ==
    LET r    == procs[p]
        inst == Construct(r.cls, r.id, tables[table(r.cls)])
    IN  /\ r.pc = "construct"
        /\ procs' = [procs EXCEPT ![p] = [r EXCEPT !.pc = "done", !.res = inst]]
        /\ created' = IF inst.exc = "none"
                        THEN created \cup {[cls |-> r.cls, id |-> r.id,
                                            name |-> r.name, values |-> r.kwargs]}
                      ELSE created
        /\ UNCHANGED <<tables, seqs, seeded, last, ui>>

NextConc ==
    \E p \in Procs :
        CallCreate(p) \/ ExistsStmt(p) \/ InsertStmt(p) \/ ConstructStmt(p)

SpecConc == InitConc /\ [][NextConc]_vars

(***************************************************************************)
(* RawDataEditorTab.render: the flags derived for the template.            *)
(***************************************************************************)
LinkStatuses == {"linking", "unlinking", "idle", "failed: no such file",
                 "failed: permission denied"}

StudyStatuses == {"sandbox", "awaiting_approval", "private", "public"}

UserLevels == {"admin", "user", "guest"}

FileLists == {<< >>, <<"seqs.fastq">>, <<"seqs.fastq", "barcodes.fastq">>}

\* str.startswith('failed')
startswith_failed(status) ==
    status \in {"failed: no such file", "failed: permission denied"}

\* a Python value with its type, and its truth value (as the template's if
\* takes it)
PyBool(b) == [type |-> "bool", v |-> b]

PyList(l) == [type |-> "list", v |-> l]

Truthy(x) == IF x.type = "bool" THEN x.v ELSE x.v # << >>

\* a and b
PyAnd(a, b) == IF Truthy(a) THEN b ELSE a

\* render with the unlink flag derived ahead of the link-status test
render_unlink_first(study_status, user_level, raw_data_files, raw_data_link_status) ==
    LET is_editable == study_status = "sandbox" \/ user_level = "admin"
        base == [is_editable |-> is_editable,
                 show_unlink_btn |-> PyAnd(PyBool(is_editable), PyList(raw_data_files)),
                 disable_link_btn |-> TRUE,
                 link_msg |-> ""]
    IN  IF raw_data_link_status = "linking"
          THEN [base EXCEPT !.link_msg = "Linking files..."]
        ELSE IF raw_data_link_status = "unlinking"
          THEN [base EXCEPT !.link_msg = "Unlinking files..."]
        ELSE [base EXCEPT
                !.disable_link_btn = FALSE,
                !.link_msg = IF startswith_failed(raw_data_link_status)
                               THEN "Error (un)linkingfiles: " \o raw_data_link_status
                             ELSE ""]

render(study_status, user_level, raw_data_files, raw_data_link_status) ==
    LET is_editable == study_status = "sandbox" \/ user_level = "admin"
        base == [is_editable |-> is_editable,
                 show_unlink_btn |-> PyBool(FALSE),
                 disable_link_btn |-> TRUE,
                 link_msg |-> ""]
    IN  IF raw_data_link_status = "linking"
          THEN [base EXCEPT !.link_msg = "Linking files..."]
        ELSE IF raw_data_link_status = "unlinking"
          THEN [base EXCEPT !.link_msg = "Unlinking files..."]
        ELSE [base EXCEPT
                !.disable_link_btn = FALSE,
                !.show_unlink_btn = PyAnd(PyBool(is_editable), PyList(raw_data_files)),
                !.link_msg = IF startswith_failed(raw_data_link_status)
                               THEN "Error (un)linkingfiles: " \o raw_data_link_status
                             ELSE ""]

NoFlags == [is_editable |-> FALSE, show_unlink_btn |-> PyBool(FALSE),
            disable_link_btn |-> TRUE, link_msg |-> ""]

InitUi ==
    /\ seeded = FALSE
    /\ tables = [t \in Tables |-> {}]
    /\ seqs = [t \in Tables |-> 1]
    /\ created = {}
    /\ last = NoCall
    /\ procs = NoProcs
    /\ \E ls \in LinkStatuses, ss \in StudyStatuses, ul \in UserLevels, fl \in FileLists :
         ui = [link_status |-> ls, study_status |-> ss, user_level |-> ul,
               raw_data_files |-> fl, rendered |-> FALSE, flags |-> NoFlags]

Render ==
    /\ ~ui.rendered
    /\ ui' = [ui EXCEPT !.rendered = TRUE,
                !.flags = render(ui.study_status, ui.user_level,
                                 ui.raw_data_files, ui.link_status)]
    /\ UNCHANGED <<tables, seqs, seeded, created, last, procs>>

NextUi == Render

SpecUi == InitUi /\ [][NextUi]_vars

(***************************************************************************)
(* Properties of the parameter-set accessor.                               *)
(***************************************************************************)
ReturnsTrue(r) == r.exc = "none" /\ r.val = TRUE

\* the step of a call (not of its return)
CallStep == Idle /\ last'.op # "none"

\* the columns create and exists are meant to take: the table's columns
\* other than the name column and the class's own key column
ExpectedCols(cls) ==
    Range(get_table_cols(table(cls))) \ {"param_set_name", column_id(cls)}

\* the rows of a class's table holding exactly the given column values
RowsWith(cls, kwargs) ==
    {r \in tables[table(cls)] :
        \A c \in ExpectedCols(cls) : c \in DOMAIN kwargs /\ r[c] = kwargs[c]}

\* C1: on a table that starts empty, exists called with exactly the expected
\* columns returns true if and only if an earlier create with the same column
\* values succeeded, under whatever name; and exists is true of the values of
\* every successful create, in every later state.
C1_ExistsIffCreated ==
    /\ (last.op = "exists" /\ ~seeded
          /\ DOMAIN last.kwargs = ExpectedCols(last.cls))
         => (ReturnsTrue(last.res)
               <=> \E e \in created : e.cls = last.cls /\ e.values = last.kwargs)
    /\ \A e \in created :
         ReturnsTrue(exists(e.cls, e.values, tables[table(e.cls)]).res)

\* exists has reported a value set that a create under another name stored
C1_Witness ==
    /\ last.op = "exists" /\ ~seeded /\ ReturnsTrue(last.res)
    /\ \E e \in created : e.cls = last.cls /\ e.values = last.kwargs
                            /\ e.name = "Custom"
    /\ Cardinality(created) = 2

\* C2: create called while a row with identical column values is present
\* raises QiitaDBDuplicateError, whatever the name, performs no INSERT and
\* leaves the table's rows as they were.
C2_DuplicateRejected ==
    [][(CallStep /\ last'.op = "create"
          /\ DOMAIN last'.kwargs = ExpectedCols(last'.cls)
          /\ RowsWith(last'.cls, last'.kwargs) # {})
        => (/\ last'.res.exc = "QiitaDBDuplicateError"
            /\ "INSERT" \notin Range(last'.stmts)
            /\ tables' = tables)]_vars

\* C3: for every class, create and exists take exactly the expected columns:
\* any other column set raises ValueError before any statement is issued,
\* naming the missing columns if any and else the extra ones; the expected
\* column set is let through.
C3_ColumnValidation ==
    (last.op \in {"create", "exists"}) =>
        LET expected == ExpectedCols(last.cls)
            missing  == expected \ DOMAIN last.kwargs
            extra    == DOMAIN last.kwargs \ expected
        IN  IF missing # {}
              THEN last.res = Raise("ValueError", "Missing columns", missing)
                     /\ last.stmts = << >>
            ELSE IF extra # {}
              THEN last.res = Raise("ValueError", "Extra columns", extra)
                     /\ last.stmts = << >>
            ELSE last.res.exc \notin {"ValueError", "KeyError"}

\* C4: no two rows of a table hold the same combination of value columns.
C4_UniqueValueSets ==
    \A t \in Tables : \A r1, r2 \in tables[t] :
        ValuesOf(t, r1) = ValuesOf(t, r2) => r1 = r2

\* two value sets are stored and a create of one of them has been refused
C4_Witness ==
    /\ last.op = "create" /\ last.res.exc = "QiitaDBDuplicateError"
    /\ Cardinality(tables[table(last.cls)]) = 2

\* C5 as first stated: the id a successful create returns differs from the
\* id of every earlier successful create.
C5_IdDiffersFromEveryEarlier ==
    \A e1, e2 \in created : e1 # e2 => e1.id # e2.id

\* C5: a successful create returns the key of the single row that call
\* inserted; the row holds the supplied name and values, _check_id of the id
\* is true as the handle is built, and the id differs from the id of every
\* earlier successful create of the same class.
C5_CreateReturnsNewRow ==
    [][(CallStep /\ last'.op = "create" /\ last'.res.exc = "none")
        => LET cls   == last'.cls
               t     == table(cls)
               added == tables'[t] \ tables[t]
           IN  /\ Cardinality(added) = 1
               /\ \A r \in added :
                    /\ r[column_id(cls)] = last'.res.val
                    /\ r["param_set_name"] = last'.name
                    /\ ValuesOf(t, r) = last'.kwargs
               /\ _check_id(cls, last'.res.val, tables'[t])
               /\ \A r \in tables[t] : r[column_id(cls)] # last'.res.val
               /\ \A e \in created : e.cls = cls => e.id # last'.res.val]_vars

\* a second create of one class has succeeded
C5_Witness ==
    /\ last.op = "create" /\ last.res.exc = "none"
    /\ \E e \in created : e.cls = last.cls /\ e.id # last.res.val

\* C6: rows are never changed or deleted; a successful create adds exactly
\* one row, and every other call, a create that raises included, leaves
\* every table as it was.
C6_RowsImmutable ==
    [][/\ \A t \in Tables : tables[t] \subseteq tables'[t]
       /\ IF CallStep /\ last'.op = "create" /\ last'.res.exc = "none"
            THEN /\ Cardinality(tables'[table(last'.cls)]
                                  \ tables[table(last'.cls)]) = 1
                 /\ \A t \in Tables \ {table(last'.cls)} : tables'[t] = tables[t]
          ELSE tables' = tables]_vars

\* a create has raised on a table that holds rows
C6_Witness ==
    /\ last.op = "create" /\ last.res.exc # "none"
    /\ tables[table(last.cls)] # {}
    /\ created # {}

(***************************************************************************)
(* Properties of the renderers.                                            *)
(***************************************************************************)
\* the elements of a set of column names, in ascending order
Ascending(S) ==
    CHOOSE s \in [1..Cardinality(S) -> S] :
        \A i, j \in 1..Cardinality(S) : i < j => StrLess(s[i], s[j])

\* the row of the instance the last call was made on
InstanceRow == CHOOSE r \in tables[table(last.cls)] : r[column_id(last.cls)] = last.id

RenderedCols ==
    (Range(get_table_cols(table(last.cls))) \ {column_id(last.cls)})
        \ ignore_cols(last.cls)

\* C7: to_str returns, joined by spaces and in ascending column-name order,
\* one token for each column that is neither the id column nor ignored:
\* '--name' for a boolean column holding true, nothing for one holding
\* false, '--name value' for any other column.
C7_ToStr ==
    (last.op = "to_str" /\ last.res.exc = "none") =>
        LET t      == table(last.cls)
            row    == InstanceRow
            shown  == {c \in RenderedCols :
                         ColType(t, c) = "boolean" => row[c] = TRUE}
            order  == Ascending(shown)
            token(c) == IF ColType(t, c) = "boolean" THEN "--" \o c
                        ELSE "--" \o c \o " " \o PyStr(ColType(t, c), row[c])
        IN  last.res.val = Join(" ", [i \in DOMAIN order |-> token(order[i])])

\* to_str has rendered a row with a false boolean and another column
C7_Witness ==
    /\ last.op = "to_str" /\ last.res.exc = "none"
    /\ last.cls = "PreprocessedIlluminaParams"
    /\ InstanceRow["rev_comp"] = FALSE
    /\ last.res.val = "--barcode_type hamming_8"

\* to_str has rendered a true boolean after another column
C7_WitnessFlag ==
    /\ last.op = "to_str" /\ last.res.exc = "none"
    /\ last.res.val = "--min_seq_len 100 --trim_seq_length"

\* C8: to_file writes the otu_picking_method line first, then exactly one
\* 'pick_otus:<key><TAB><value>' line for each column of the row other than
\* the id column and reference_id, in ascending key order, and nothing else.
C8_ToFile ==
    (last.op = "to_file" /\ last.res.exc = "none") =>
        LET t     == table(last.cls)
            row   == InstanceRow
            order == Ascending((DOMAIN row \ {column_id(last.cls)}) \ {"reference_id"})
        IN  /\ Len(last.out) = Len(order) + 1
            /\ last.out[1] = "pick_otus:otu_picking_method\tsortmerna\n"
            /\ \A i \in DOMAIN order :
                 last.out[i + 1] = "pick_otus:" \o order[i] \o "\t"
                                     \o PyStr(ColType(t, order[i]), row[order[i]])
                                     \o "\n"

\* to_file has written the parameters of a stored row
C8_Witness ==
    /\ last.op = "to_file" /\ last.res.exc = "none"
    /\ last.out = <<"pick_otus:otu_picking_method\tsortmerna\n",
                    "pick_otus:param_set_name\tDefaults\n",
                    "pick_otus:threads\t200\n">>

(***************************************************************************)
(* Properties of the editor tab's flags.                                   *)
(***************************************************************************)
InProgress == ui.link_status \in {"linking", "unlinking"}

\* C9: the link button is disabled exactly while a link or unlink is in
\* progress; the unlink button is shown exactly when none is in progress,
\* the raw data is editable (sandboxed study or admin user) and a file is
\* attached; so it is never shown while a link or unlink is in progress.
C9_LinkButtons ==
    ui.rendered =>
        /\ ui.flags.disable_link_btn <=> InProgress
        /\ Truthy(ui.flags.show_unlink_btn)
             <=> (/\ ~InProgress
                  /\ (ui.study_status = "sandbox" \/ ui.user_level = "admin")
                  /\ ui.raw_data_files # << >>)
        /\ InProgress => ~Truthy(ui.flags.show_unlink_btn)

\* the tab of an admin is rendered for a public study, with files attached
\* and a failed link: the unlink button is shown
C9_Witness ==
    /\ ui.rendered
    /\ ui.link_status = "failed: no such file"
    /\ ui.study_status = "public" /\ ui.user_level = "admin"
    /\ ui.raw_data_files # << >>
    /\ Truthy(ui.flags.show_unlink_btn)
    /\ ~ui.flags.disable_link_btn

\* the tab is rendered while files are being linked
C9_WitnessLinking ==
    /\ ui.rendered /\ ui.link_status = "linking"
    /\ ui.study_status = "sandbox" /\ ui.raw_data_files # << >>
    /\ ui.flags.disable_link_btn

(***************************************************************************)
(* Properties of interleaved requests.                                     *)
(***************************************************************************)
\* C10: of two interleaved create calls with identical column values at
\* most one inserts a row and the other raises QiitaDBDuplicateError, so no
\* table ever holds two rows with the same value set.
C10_OneInsertPerValueSet ==
    /\ \A t \in Tables : \A r1, r2 \in tables[t] :
         r1 # r2 => ValuesOf(t, r1) # ValuesOf(t, r2)
    /\ (/\ \A p \in Procs : procs[p].pc = "done"
        /\ procs[1].cls = procs[2].cls
        /\ procs[1].kwargs = procs[2].kwargs)
         => \A p, q \in Procs :
              (p # q /\ procs[p].res.exc = "none")
                => procs[q].res.exc = "QiitaDBDuplicateError"

====
